---- MODULE Spec2Model ----
(***************************************************************************)
(* State-machine model of src/devkit-power-source.c: one power-supply      *)
(* device, the DevkitPowerSource objects the daemon builds for it, the     *)
(* GLib timeout sources those objects arm, and the signals they emit.      *)
(*                                                                         *)
(* Representation choices                                                  *)
(*  - a C string is a sequence of one-character strings; the NULL pointer  *)
(*    is the one-element sequence NULL, which is no string;                *)
(*  - a double is an exact fraction [n, d] in lowest terms with d >= 0;    *)
(*    d = 0 stands for the IEEE specials: 1/0 = +inf, -1/0 = -inf,         *)
(*    0/0 = NaN.  Comparison by cross-multiplication then gives IEEE       *)
(*    results (every comparison with NaN is false);                        *)
(*  - the program is single threaded: handlers run to completion on the    *)
(*    main loop, so time and the device attributes move only at pc="idle". *)
(***************************************************************************)
EXTENDS Integers, Sequences, FiniteSets, TLC

VARIABLES
    sysfs,        \* the device's attributes as the running handler finds them
    priv,         \* DevkitPowerSourcePrivate of the current object
    obj,          \* identity of the current object (0: none built yet)
    life,         \* "none" | "new" | "live" | "finalizing" | "dead"
    registered,   \* the object is exported on the bus under priv.object_path
    freed,        \* members finalize has already released
    timers,       \* timeout sources attached to the main loop
    dispatching,  \* id of the timeout source whose callback is running, or 0
    age,          \* seconds since priv.update_time was stamped (saturating)
    pc,           \* position of the running handler, "idle" between handlers
    handler,      \* the handler that runs, or ran last
    ret,          \* value returned by the last update()
    result,       \* value returned by the last handler to its caller
    n_updates,    \* update() calls made by this handler
    n_cancelled,  \* timeout sources removed by this handler
    daemon_sig,   \* "device-changed" arguments this handler sent the daemon
    changed_sig,  \* local "changed" signals this handler emitted
    replied,      \* this handler sent its D-Bus method reply
    missing,      \* this handler's update read an attribute that is absent
    uaf           \* a timeout callback ran on a finalized object

vars == <<sysfs, priv, obj, life, registered, freed, timers, dispatching, age,
          pc, handler, ret, result, n_updates, n_cancelled, daemon_sig,
          changed_sig, replied, missing, uaf>>

----------------------------------------------------------------------------
(* Bounds and program constants *)

MaxObjects == 2

POLL_INTERVAL == 30

DK_POWER_MIN_CHARGED_PERCENTAGE == 60

----------------------------------------------------------------------------
(* C strings *)

NULL == <<"NULL">>

Str_charging == <<"c","h","a","r","g","i","n","g">>
Str_discharging == <<"d","i","s","c","h","a","r","g","i","n","g">>
Str_sources == <<"/","s","o","u","r","c","e","s","/">>

UpperCase == <<"A","B","C","D","E","F","G","H","I","J","K","L","M",
               "N","O","P","Q","R","S","T","U","V","W","X","Y","Z">>
LowerCase == <<"a","b","c","d","e","f","g","h","i","j","k","l","m",
               "n","o","p","q","r","s","t","u","v","w","x","y","z">>

tolower(c) ==
    IF \E i \in 1..26 : UpperCase[i] = c
    THEN LowerCase[CHOOSE i \in 1..26 : UpperCase[i] = c]
    ELSE c

isspace(c) == c \in {" ", "\n", "\t", "\r"}

RECURSIVE g_strchug(_)
g_strchug(s) ==
    IF s # <<>> /\ isspace(Head(s)) THEN g_strchug(Tail(s)) ELSE s

RECURSIVE g_strchomp(_)
g_strchomp(s) ==
    IF s # <<>> /\ isspace(s[Len(s)])
    THEN g_strchomp(SubSeq(s, 1, Len(s) - 1))
    ELSE s

g_strstrip(s) == g_strchomp(g_strchug(s))

\* strcasecmp (a, b) == 0
strcasecmp_eq(a, b) ==
    /\ Len(a) = Len(b)
    /\ \A i \in 1..Len(a) : tolower(a[i]) = tolower(b[i])

----------------------------------------------------------------------------
(* doubles *)

Abs(x) == IF x < 0 THEN -x ELSE x
Sign(x) == IF x < 0 THEN -1 ELSE IF x > 0 THEN 1 ELSE 0

RECURSIVE GCD(_, _)
GCD(a, b) == IF b = 0 THEN a ELSE GCD(b, a % b)

\* the double n/d, d # 0, in lowest terms with a positive denominator
Dbl(n, d) ==
    LET g == GCD(Abs(n), Abs(d))
    IN  [n |-> (Sign(d) * n) \div g, d |-> Abs(d) \div g]

DblInt(k) == [n |-> k, d |-> 1]

DblMul(a, b) ==
    IF a.d = 0 \/ b.d = 0
    THEN [n |-> Sign(a.n) * Sign(b.n), d |-> 0]
    ELSE Dbl(a.n * b.n, a.d * b.d)

DblDiv(a, b) ==
    IF a.d = 0 \/ b.d = 0 THEN [n |-> 0, d |-> 0]
    ELSE IF b.n = 0 THEN [n |-> Sign(a.n), d |-> 0]
    ELSE Dbl(a.n * b.d, a.d * b.n)

DblLt(a, b) == a.n * b.d < b.n * a.d
DblGt(a, b) == a.n * b.d > b.n * a.d

fabs(a) == [n |-> Abs(a.n), d |-> a.d]

----------------------------------------------------------------------------
(* The device: descriptors and the attribute store *)

Descriptors == {1, 2}

Path_bat == <<"/","p","-","s","/","B","-","0">>
Path_ac == <<"/","p","/","A","C","/">>

devkit_device_get_native_path(d) == IF d = 1 THEN Path_bat ELSE Path_ac

BatteryAttributes == {"status", "energy_now", "energy_full",
                      "energy_full_design", "current_now", "technology",
                      "manufacturer", "model_name", "serial_number"}

R_battery ==
    [present |-> BatteryAttributes, online |-> 0,
     status |-> <<>>, energy_now |-> 0, energy_full |-> 10000000,
     energy_full_design |-> 11000000, current_now |-> 2000000,
     technology |-> <<"L","i","-","i","o","n","\n">>,
     manufacturer |-> <<" ","S","M","P","\n">>,
     model_name |-> <<"X","1">>, serial_number |-> <<"7">>]

R_absent == [R_battery EXCEPT !.present = {}]
R_ac_on == [R_battery EXCEPT !.present = {"online"}, !.online = 1]
R_ac_off == [R_battery EXCEPT !.present = {"online"}, !.online = 0]
R_charging10 ==
    [R_battery EXCEPT !.status = <<"C","h","a","r","g","i","n","g","\n">>,
                      !.energy_now = 1000000]
R_discharging95 ==
    [R_battery EXCEPT !.status = <<" ","D","I","S","C","H","A","R","G","I","N","G">>,
                      !.energy_now = 9500000, !.current_now = -2000000]
R_idle60 == [R_battery EXCEPT !.energy_now = 6000000, !.current_now = 0]
R_full75 ==
    [R_battery EXCEPT !.status = <<"F","u","l","l","\n">>,
                      !.energy_now = 7500000,
                      !.manufacturer = <<"L","G">>,
                      !.technology = <<"N","i","M","H">>]
R_over ==
    [R_battery EXCEPT !.status = <<"N","o","t"," ","c","h","a","r","g","i","n","g">>,
                      !.energy_now = 12000000]
R_negative ==
    [R_battery EXCEPT !.energy_now = -1000000, !.current_now = -3000000]

Readings == {R_ac_on, R_ac_off, R_absent, R_charging10, R_discharging95,
             R_idle60, R_full75, R_over, R_negative}

sysfs_file_exists(r, name) == name \in r.present

\* the callers take the value unconditionally: an absent attribute reads as
\* the empty string, respectively zero
sysfs_get_string(r, name) == IF name \in r.present THEN r[name] ELSE <<>>
sysfs_get_int(r, name) == IF name \in r.present THEN r[name] ELSE 0
sysfs_get_double(r, name) ==
    IF name \in r.present THEN DblInt(r[name]) ELSE DblInt(0)

devkit_power_convert_acpi_technology_to_enum(s) ==
    IF strcasecmp_eq(s, <<"l","i","-","i","o","n">>) THEN "LITHIUM_ION"
    ELSE IF strcasecmp_eq(s, <<"n","i","m","h">>) THEN "NICKEL_METAL_HYDRIDE"
    ELSE "UNKNOWN"

----------------------------------------------------------------------------
(* Object path *)

RECURSIVE StripTrailingSlashes(_)
StripTrailingSlashes(s) ==
    IF s # <<>> /\ s[Len(s)] = "/"
    THEN StripTrailingSlashes(SubSeq(s, 1, Len(s) - 1))
    ELSE s

RECURSIVE StripLeadingSlashes(_)
StripLeadingSlashes(s) ==
    IF s # <<>> /\ Head(s) = "/" THEN StripLeadingSlashes(Tail(s)) ELSE s

RECURSIVE LastSegment(_)
LastSegment(s) ==
    IF \E i \in 1..Len(s) : s[i] = "/" THEN LastSegment(Tail(s)) ELSE s

g_path_get_basename(s) ==
    IF s = <<>> THEN <<".">>
    ELSE IF StripTrailingSlashes(s) = <<>> THEN <<"/">>
    ELSE LastSegment(StripTrailingSlashes(s))

g_build_filename(first, second) ==
    LET a == StripTrailingSlashes(first)
        b == StripLeadingSlashes(second)
    IN  IF b = <<>> THEN first ELSE a \o <<"/">> \o b

\* seeded fault: the loop stops one character short
compute_object_path_short_loop(native_path_basename) ==
    LET basename == g_path_get_basename(native_path_basename)
        replaced == [n \in 1..Len(basename) |->
                        IF basename[n] = "-" /\ n < Len(basename)
                        THEN "_" ELSE basename[n]]
    IN  g_build_filename(Str_sources, replaced)

compute_object_path_from_basename(native_path_basename) ==
    LET basename == g_path_get_basename(native_path_basename)
        replaced == [n \in 1..Len(basename) |->
                        IF basename[n] = "-" THEN "_" ELSE basename[n]]
    IN  g_build_filename(Str_sources, replaced)

compute_object_path(native_path) ==
    compute_object_path_from_basename(g_path_get_basename(native_path))

----------------------------------------------------------------------------
(* DevkitPowerSourcePrivate *)

\* g_object_new: the private area is zero-filled, then instance init runs
devkit_power_source_init ==
    [d |-> 0, daemon |-> 0, object_path |-> NULL, native_path |-> NULL,
     poll_timer_id |-> 0, vendor |-> NULL, model |-> NULL, serial |-> NULL,
     type |-> "ZERO", line_power_online |-> 0,
     battery_state |-> "ZERO", battery_technology |-> "ZERO",
     battery_energy |-> DblInt(0), battery_energy_full |-> DblInt(0),
     battery_energy_full_design |-> DblInt(0),
     battery_energy_rate |-> DblInt(0), battery_percentage |-> DblInt(0),
     battery_time_to_empty |-> -1, battery_time_to_full |-> -1]

----------------------------------------------------------------------------
(* GLib timeout sources: [id, data, remaining] *)

SourceIds(ts) == {t.id : t \in ts}

g_source_remove(ts, id) == {t \in ts : t.id # id}

\* a new source gets an id no attached source has
g_timeout_add_seconds(ts, busy, interval, data) ==
    LET used == SourceIds(ts) \cup {busy}
        id == CHOOSE k \in 1..(Cardinality(used) + 1) : k \notin used
    IN  [id |-> id, data |-> data, remaining |-> interval]

----------------------------------------------------------------------------
(* update and its parts, as functions of the private record *)

\* seeded fault: update forgets to detach the pending timeout source
update_keeps_timer(ts, p) == ts

\* update: lines 546-549
update_remove_timer(ts, p) ==
    IF p.poll_timer_id > 0 THEN g_source_remove(ts, p.poll_timer_id) ELSE ts

\* seeded fault: the static fields are read on every call
update_initial_values_always(p, r) ==
    [p EXCEPT
        !.battery_technology =
            devkit_power_convert_acpi_technology_to_enum(
                g_strstrip(sysfs_get_string(r, "technology"))),
        !.vendor = g_strstrip(sysfs_get_string(r, "manufacturer")),
        !.model = g_strstrip(sysfs_get_string(r, "model_name")),
        !.serial = g_strstrip(sysfs_get_string(r, "serial_number"))]

\* update: lines 552-562
update_initial_values(p, r) ==
    IF p.vendor = NULL
    THEN [p EXCEPT
            !.battery_technology =
                devkit_power_convert_acpi_technology_to_enum(
                    g_strstrip(sysfs_get_string(r, "technology"))),
            !.vendor = g_strstrip(sysfs_get_string(r, "manufacturer")),
            !.model = g_strstrip(sysfs_get_string(r, "model_name")),
            !.serial = g_strstrip(sysfs_get_string(r, "serial_number"))]
    ELSE p

update_line_power(p, r) ==
    [p EXCEPT !.line_power_online = sysfs_get_int(r, "online")]

\* seeded fault: the upper clamp is missing
battery_percentage_unclamped(energy, energy_full) ==
    LET raw == DblDiv(DblMul(DblInt(100), energy), energy_full)
    IN  IF DblLt(raw, DblInt(0)) THEN DblInt(0) ELSE raw

\* update_battery: lines 511-515
battery_percentage(energy, energy_full) ==
    LET raw == DblDiv(DblMul(DblInt(100), energy), energy_full)
    IN  IF DblLt(raw, DblInt(0)) THEN DblInt(0)
        ELSE IF DblGt(raw, DblInt(100)) THEN DblInt(100)
        ELSE raw

\* seeded fault: the threshold is inclusive
battery_state_inclusive(is_charging, is_discharging, percentage) ==
    IF is_charging THEN "CHARGING"
    ELSE IF is_discharging THEN "DISCHARGING"
    ELSE IF ~DblLt(percentage, DblInt(DK_POWER_MIN_CHARGED_PERCENTAGE))
         THEN "FULLY_CHARGED"
    ELSE "EMPTY"

\* update_battery: lines 518-525
battery_state(is_charging, is_discharging, percentage) ==
    IF is_charging THEN "CHARGING"
    ELSE IF is_discharging THEN "DISCHARGING"
    ELSE IF DblGt(percentage, DblInt(DK_POWER_MIN_CHARGED_PERCENTAGE))
         THEN "FULLY_CHARGED"
    ELSE "EMPTY"

\* seeded fault: fabs is left out
battery_energy_rate_signed(current_now, is_charging) ==
    LET rate == DblDiv(current_now, DblInt(1000000))
    IN  IF is_charging THEN DblMul(rate, DblInt(-1)) ELSE rate

\* update_battery: lines 505-508
battery_energy_rate(current_now, is_charging) ==
    LET rate == fabs(DblDiv(current_now, DblInt(1000000)))
    IN  IF is_charging THEN DblMul(rate, DblInt(-1)) ELSE rate

\* seeded fault: the battery branch also reads "online"
update_battery_reads_online(p, r) ==
    LET status == g_strstrip(sysfs_get_string(r, "status"))
        is_charging == strcasecmp_eq(status, Str_charging)
        is_discharging == strcasecmp_eq(status, Str_discharging)
        energy == DblDiv(sysfs_get_double(r, "energy_now"), DblInt(1000000))
        energy_full ==
            DblDiv(sysfs_get_double(r, "energy_full"), DblInt(1000000))
        percentage == battery_percentage(energy, energy_full)
    IN  [p EXCEPT
            !.line_power_online = sysfs_get_int(r, "online"),
            !.battery_energy = energy,
            !.battery_energy_full = energy_full,
            !.battery_energy_full_design =
                DblDiv(sysfs_get_double(r, "energy_full_design"), DblInt(1000000)),
            !.battery_energy_rate =
                battery_energy_rate(sysfs_get_double(r, "current_now"),
                                    is_charging),
            !.battery_percentage = percentage,
            !.battery_state =
                battery_state(is_charging, is_discharging, percentage)]

\* seeded fault: the battery branch estimates the time to empty
update_battery_estimates(p, r) ==
    LET status == g_strstrip(sysfs_get_string(r, "status"))
        is_charging == strcasecmp_eq(status, Str_charging)
        is_discharging == strcasecmp_eq(status, Str_discharging)
        energy == DblDiv(sysfs_get_double(r, "energy_now"), DblInt(1000000))
        energy_full ==
            DblDiv(sysfs_get_double(r, "energy_full"), DblInt(1000000))
        percentage == battery_percentage(energy, energy_full)
    IN  [p EXCEPT
            !.battery_time_to_empty = IF is_discharging THEN 3600 ELSE -1,
            !.battery_energy = energy,
            !.battery_energy_full = energy_full,
            !.battery_energy_full_design =
                DblDiv(sysfs_get_double(r, "energy_full_design"), DblInt(1000000)),
            !.battery_energy_rate =
                battery_energy_rate(sysfs_get_double(r, "current_now"),
                                    is_charging),
            !.battery_percentage = percentage,
            !.battery_state =
                battery_state(is_charging, is_discharging, percentage)]

update_battery(p, r) ==
    LET status == g_strstrip(sysfs_get_string(r, "status"))
        is_charging == strcasecmp_eq(status, Str_charging)
        is_discharging == strcasecmp_eq(status, Str_discharging)
        energy == DblDiv(sysfs_get_double(r, "energy_now"), DblInt(1000000))
        energy_full ==
            DblDiv(sysfs_get_double(r, "energy_full"), DblInt(1000000))
        energy_full_design ==
            DblDiv(sysfs_get_double(r, "energy_full_design"), DblInt(1000000))
        percentage == battery_percentage(energy, energy_full)
    IN  [p EXCEPT
            !.battery_energy = energy,
            !.battery_energy_full = energy_full,
            !.battery_energy_full_design = energy_full_design,
            !.battery_energy_rate =
                battery_energy_rate(sysfs_get_double(r, "current_now"),
                                    is_charging),
            !.battery_percentage = percentage,
            !.battery_state =
                battery_state(is_charging, is_discharging, percentage)]

\* both update_line_power and update_battery end in "return TRUE"
update_line_power_ret == TRUE
update_battery_ret == TRUE

\* the attributes the type's update reads
AttributesRead(p) ==
    IF p.type = "LINE_POWER" THEN {"online"}
    ELSE {"status", "energy_now", "energy_full", "energy_full_design",
          "current_now"}

----------------------------------------------------------------------------
(* Initial state: the daemon has built no source yet *)

Init ==
    /\ sysfs = R_absent
    /\ priv = devkit_power_source_init
    /\ obj = 0
    /\ life = "none"
    /\ registered = FALSE
    /\ freed = {}
    /\ timers = {}
    /\ dispatching = 0
    /\ age = 0
    /\ pc = "idle"
    /\ handler = "none"
    /\ ret = FALSE
    /\ result = "none"
    /\ n_updates = 0
    /\ n_cancelled = 0
    /\ daemon_sig = <<>>
    /\ changed_sig = 0
    /\ replied = FALSE
    /\ missing = FALSE
    /\ uaf = FALSE

\* a handler is entered from the main loop
Enter(h) ==
    /\ pc = "idle"
    /\ handler' = h
    /\ ret' = FALSE
    /\ result' = "none"
    /\ n_updates' = 0
    /\ n_cancelled' = 0
    /\ daemon_sig' = <<>>
    /\ changed_sig' = 0
    /\ replied' = FALSE
    /\ missing' = FALSE

observed == <<n_updates, n_cancelled, daemon_sig, changed_sig, replied, missing>>

----------------------------------------------------------------------------
(* Environment.  The attributes matter only when a handler reads them, so
   each handler draws the content it finds from Readings on entry. *)

\* one second passes; a timeout source that is due is dispatched first
Tick ==
    /\ pc = "idle"
    /\ life = "live" \/ timers # {}
    /\ \A t \in timers : t.remaining > 0
    /\ timers' = {[t EXCEPT !.remaining = @ - 1] : t \in timers}
    /\ age' = IF age < POLL_INTERVAL THEN age + 1 ELSE age
    /\ UNCHANGED <<sysfs, priv, obj, life, registered, freed, dispatching,
                   pc, handler, ret, result, observed, uaf>>

----------------------------------------------------------------------------
(* update(): lines 541-588 *)

AfterUpdate ==
    CASE handler = "new" -> "new_check"
      [] handler = "changed" -> "changed_check"
      [] handler = "poll" -> "poll_emit"
      [] handler = "refresh" -> "refresh_return"

UpdateRemoveTimer ==
    /\ pc = "update"
    /\ timers' = update_remove_timer(timers, priv)
    /\ priv' = [priv EXCEPT !.poll_timer_id = 0]
    /\ n_updates' = n_updates + 1
    /\ n_cancelled' = n_cancelled + Cardinality(timers) - Cardinality(timers')
    /\ pc' = "update_initial"
    /\ UNCHANGED <<sysfs, obj, life, registered, freed, dispatching, age,
                   handler, ret, result, daemon_sig, changed_sig, replied,
                   missing, uaf>>

\* static fields on the first call, then g_get_current_time (&update_time)
UpdateInitialValues ==
    /\ pc = "update_initial"
    /\ priv' = update_initial_values(priv, sysfs)
    /\ age' = 0
    /\ pc' = "update_type"
    /\ UNCHANGED <<sysfs, obj, life, registered, freed, timers, dispatching,
                   handler, ret, result, observed, uaf>>

\* seeded fault: the poll timer is armed after either branch
UpdateType_always_polls ==
    /\ pc = "update_type"
    /\ missing' = ~(AttributesRead(priv) \subseteq sysfs.present)
    /\ IF priv.type = "LINE_POWER"
       THEN /\ priv' = update_line_power(priv, sysfs)
            /\ ret' = update_line_power_ret
       ELSE /\ priv' = update_battery(priv, sysfs)
            /\ ret' = update_battery_ret
    /\ pc' = "update_poll"
    /\ UNCHANGED <<sysfs, obj, life, registered, freed, timers, dispatching,
                   age, handler, result, n_updates, n_cancelled, daemon_sig,
                   changed_sig, replied, uaf>>

UpdateType ==
    /\ pc = "update_type"
    /\ missing' = ~(AttributesRead(priv) \subseteq sysfs.present)
    /\ IF priv.type = "LINE_POWER"
       THEN /\ priv' = update_line_power(priv, sysfs)
            /\ ret' = update_line_power_ret
            /\ pc' = AfterUpdate
       ELSE /\ priv' = update_battery(priv, sysfs)
            /\ ret' = update_battery_ret
            /\ pc' = "update_poll"
    /\ UNCHANGED <<sysfs, obj, life, registered, freed, timers, dispatching,
                   age, handler, result, n_updates, n_cancelled, daemon_sig,
                   changed_sig, replied, uaf>>

\* line 579: the battery branch arms the poll timer
\* seeded fault: an update made for Refresh does not arm the timer again
UpdateAddTimer_not_on_refresh ==
    /\ pc = "update_poll"
    /\ LET t == g_timeout_add_seconds(timers, dispatching, POLL_INTERVAL, obj)
       IN  IF handler = "refresh"
           THEN UNCHANGED <<timers, priv>>
           ELSE /\ timers' = timers \cup {t}
                /\ priv' = [priv EXCEPT !.poll_timer_id = t.id]
    /\ pc' = AfterUpdate
    /\ UNCHANGED <<sysfs, obj, life, registered, freed, dispatching, age,
                   handler, ret, result, observed, uaf>>

\* seeded fault: only the update made at construction arms the timer
UpdateAddTimer_once ==
    /\ pc = "update_poll"
    /\ LET t == g_timeout_add_seconds(timers, dispatching, POLL_INTERVAL, obj)
       IN  IF handler # "new"
           THEN UNCHANGED <<timers, priv>>
           ELSE /\ timers' = timers \cup {t}
                /\ priv' = [priv EXCEPT !.poll_timer_id = t.id]
    /\ pc' = AfterUpdate
    /\ UNCHANGED <<sysfs, obj, life, registered, freed, dispatching, age,
                   handler, ret, result, observed, uaf>>

UpdateAddTimer ==
    /\ pc = "update_poll"
    /\ LET t == g_timeout_add_seconds(timers, dispatching, POLL_INTERVAL, obj)
       IN  /\ timers' = timers \cup {t}
           /\ priv' = [priv EXCEPT !.poll_timer_id = t.id]
    /\ pc' = AfterUpdate
    /\ UNCHANGED <<sysfs, obj, life, registered, freed, dispatching, age,
                   handler, ret, result, observed, uaf>>

----------------------------------------------------------------------------
(* Construction: devkit_power_source_new, register_power_source *)

\* lines 397-410, then the call of update on line 412
New ==
    /\ Enter("new")
    /\ life \in {"none", "dead"}
    /\ obj < MaxObjects
    /\ \E r \in Readings : sysfs' = r
    /\ \E d \in Descriptors :
          priv' = [devkit_power_source_init EXCEPT
                     !.d = d,
                     !.daemon = 1,
                     !.native_path = devkit_device_get_native_path(d),
                     !.type = IF sysfs_file_exists(sysfs', "online")
                              THEN "LINE_POWER" ELSE "BATTERY"]
    /\ obj' = obj + 1
    /\ life' = "new"
    /\ registered' = FALSE
    /\ freed' = {}
    /\ pc' = "update"
    /\ UNCHANGED <<timers, dispatching, age, uaf>>

\* lines 412-416
\* seeded fault: the constructor announces the source after its first update
NewCheck_emits ==
    /\ pc = "new_check"
    /\ IF ret
       THEN /\ pc' = "new_register"
            /\ daemon_sig' = Append(daemon_sig, priv.object_path)
            /\ changed_sig' = changed_sig + 1
            /\ UNCHANGED <<life, result>>
       ELSE /\ pc' = "finalize"
            /\ life' = "finalizing"
            /\ result' = "NULL"
            /\ UNCHANGED <<daemon_sig, changed_sig>>
    /\ UNCHANGED <<sysfs, priv, obj, registered, freed, timers, dispatching,
                   age, handler, ret, n_updates, n_cancelled, replied,
                   missing, uaf>>

NewCheck ==
    /\ pc = "new_check"
    /\ IF ret
       THEN /\ pc' = "new_register"
            /\ UNCHANGED <<life, result>>
       ELSE /\ pc' = "finalize"
            /\ life' = "finalizing"
            /\ result' = "NULL"
    /\ UNCHANGED <<sysfs, priv, obj, registered, freed, timers, dispatching,
                   age, handler, ret, observed, uaf>>

\* lines 418-425 with register_power_source, lines 358-389
NewRegister ==
    /\ pc = "new_register"
    /\ \E system_bus_connection \in BOOLEAN :
          IF system_bus_connection
          THEN /\ priv' = [priv EXCEPT
                             !.object_path = compute_object_path(priv.native_path)]
               /\ registered' = TRUE
               /\ life' = "live"
               /\ result' = "source"
               /\ pc' = "idle"
          ELSE /\ pc' = "finalize"
               /\ life' = "finalizing"
               /\ result' = "NULL"
               /\ UNCHANGED <<priv, registered>>
    /\ UNCHANGED <<sysfs, obj, freed, timers, dispatching, age, handler, ret,
                   observed, uaf>>

----------------------------------------------------------------------------
(* Destruction: devkit_power_source_finalize *)

\* seeded fault: finalize leaves the timeout source attached
finalize_keeps_timer(ts, p) == ts

\* finalize: lines 319-320
finalize_remove_timer(ts, p) ==
    IF p.poll_timer_id > 0 THEN g_source_remove(ts, p.poll_timer_id) ELSE ts

\* lines 310-317
Finalize ==
    /\ pc = "finalize"
    /\ freed' = {"d", "daemon", "native_path", "vendor", "model", "serial"}
    /\ pc' = "finalize_timer"
    /\ UNCHANGED <<sysfs, priv, obj, life, registered, timers, dispatching,
                   age, handler, ret, result, observed, uaf>>

\* lines 319-322; the bus binding drops the object when it is disposed
FinalizeTimer ==
    /\ pc = "finalize_timer"
    /\ timers' = finalize_remove_timer(timers, priv)
    /\ n_cancelled' = n_cancelled + Cardinality(timers) - Cardinality(timers')
    /\ life' = "dead"
    /\ registered' = FALSE
    /\ pc' = "idle"
    /\ UNCHANGED <<sysfs, priv, obj, freed, dispatching, age, handler, ret,
                   result, n_updates, daemon_sig, changed_sig, replied,
                   missing, uaf>>

\* the daemon drops a source whose device went away: lines 461-464
Removed ==
    /\ Enter("removed")
    /\ life = "live"
    /\ life' = "finalizing"
    /\ pc' = "finalize"
    /\ UNCHANGED <<sysfs, priv, obj, registered, freed, timers, dispatching,
                   age, uaf>>

----------------------------------------------------------------------------
(* Notification: emit_changed, lines 428-437 *)

\* seeded fault: the daemon is told the native path
emit_changed_native_path(sig, p) == Append(sig, p.native_path)

emit_changed_daemon(sig, p) == Append(sig, p.object_path)

emit_changed_local(n) == n + 1

----------------------------------------------------------------------------
(* Change events: devkit_power_source_changed, lines 439-459 *)

\* seeded fault: the change handler takes the native path of the new descriptor
Changed_adopts_path ==
    /\ Enter("changed")
    /\ life = "live"
    /\ \E r \in Readings : sysfs' = r
    /\ \E d \in Descriptors :
          priv' = [priv EXCEPT !.d = d,
                               !.native_path = devkit_device_get_native_path(d)]
    /\ pc' = "update"
    /\ UNCHANGED <<obj, life, registered, freed, timers, dispatching, age, uaf>>

Changed ==
    /\ Enter("changed")
    /\ life = "live"
    /\ \E r \in Readings : sysfs' = r
    /\ \E d \in Descriptors : priv' = [priv EXCEPT !.d = d]
    /\ pc' = "update"
    /\ UNCHANGED <<obj, life, registered, freed, timers, dispatching,
                   age, uaf>>

\* seeded fault: the change handler forgets emit_changed
ChangedCheck_silent ==
    /\ pc = "changed_check"
    /\ result' = IF ret THEN "TRUE" ELSE "FALSE"
    /\ IF ret
       THEN pc' = "idle" /\ UNCHANGED life
       ELSE pc' = "finalize" /\ life' = "finalizing"
    /\ UNCHANGED <<sysfs, priv, obj, registered, freed, timers, dispatching,
                   age, handler, ret, observed, uaf>>

\* lines 448-458; a source that is not kept is dropped by the daemon
ChangedCheck ==
    /\ pc = "changed_check"
    /\ LET keep_source == ret
       IN  /\ IF keep_source
              THEN /\ daemon_sig' = emit_changed_daemon(daemon_sig, priv)
                   /\ changed_sig' = emit_changed_local(changed_sig)
              ELSE UNCHANGED <<daemon_sig, changed_sig>>
           /\ result' = IF keep_source THEN "TRUE" ELSE "FALSE"
           /\ IF keep_source
              THEN pc' = "idle" /\ UNCHANGED life
              ELSE pc' = "finalize" /\ life' = "finalizing"
    /\ UNCHANGED <<sysfs, priv, obj, registered, freed, timers, dispatching,
                   age, handler, ret, n_updates, n_cancelled, replied,
                   missing, uaf>>

----------------------------------------------------------------------------
(* Polling: _poll_battery, lines 531-539 *)

\* seeded fault: _poll_battery returns TRUE, so the main loop keeps its source
poll_battery_repeats == TRUE

\* the value _poll_battery returns to the main loop: FALSE detaches the source
poll_battery_return == FALSE

\* the main loop dispatches a due timeout source: lines 534-536
PollBattery ==
    /\ pc = "idle"
    /\ \E t \in timers :
          /\ t.remaining = 0
          /\ timers' = timers \ {t}
          /\ IF t.data = obj /\ life = "live"
             THEN /\ Enter("poll")
                  /\ \E r \in Readings : sysfs' = r
                  /\ dispatching' = t.id
                  /\ priv' = [priv EXCEPT !.poll_timer_id = 0]
                  /\ pc' = "update"
                  /\ UNCHANGED uaf
             ELSE /\ uaf' = TRUE
                  /\ UNCHANGED <<sysfs, priv, dispatching, pc, handler, ret,
                                 result, observed>>
    /\ UNCHANGED <<obj, life, registered, freed, age>>

\* lines 537-538
PollEmit ==
    /\ pc = "poll_emit"
    /\ daemon_sig' = emit_changed_daemon(daemon_sig, priv)
    /\ changed_sig' = emit_changed_local(changed_sig)
    /\ result' = IF poll_battery_return THEN "TRUE" ELSE "FALSE"
    /\ timers' = IF poll_battery_return
                 THEN timers \cup {[id |-> dispatching, data |-> obj,
                                    remaining |-> POLL_INTERVAL]}
                 ELSE timers
    /\ dispatching' = 0
    /\ pc' = "idle"
    /\ UNCHANGED <<sysfs, priv, obj, life, registered, freed, age, handler,
                   ret, n_updates, n_cancelled, replied, missing, uaf>>

----------------------------------------------------------------------------
(* Refresh: devkit_power_source_refresh, lines 592-599 *)

Refresh ==
    /\ Enter("refresh")
    /\ life = "live"
    /\ \E r \in Readings : sysfs' = r
    /\ pc' = "update"
    /\ UNCHANGED <<priv, obj, life, registered, freed, timers,
                   dispatching, age, uaf>>

\* seeded fault: Refresh also calls emit_changed
RefreshReturn_emits ==
    /\ pc = "refresh_return"
    /\ daemon_sig' = emit_changed_daemon(daemon_sig, priv)
    /\ changed_sig' = emit_changed_local(changed_sig)
    /\ replied' = TRUE
    /\ result' = "TRUE"
    /\ pc' = "idle"
    /\ UNCHANGED <<sysfs, priv, obj, life, registered, freed, timers,
                   dispatching, age, handler, ret, n_updates, n_cancelled,
                   missing, uaf>>

\* lines 597-598
RefreshReturn ==
    /\ pc = "refresh_return"
    /\ replied' = TRUE
    /\ result' = "TRUE"
    /\ pc' = "idle"
    /\ UNCHANGED <<sysfs, priv, obj, life, registered, freed, timers,
                   dispatching, age, handler, ret, n_updates, n_cancelled,
                   daemon_sig, changed_sig, missing, uaf>>

----------------------------------------------------------------------------

Next ==
    \/ Tick
    \/ New
    \/ NewCheck
    \/ NewRegister
    \/ UpdateRemoveTimer
    \/ UpdateInitialValues
    \/ UpdateType
    \/ UpdateAddTimer
    \/ Changed
    \/ ChangedCheck
    \/ PollBattery
    \/ PollEmit
    \/ Refresh
    \/ RefreshReturn
    \/ Removed
    \/ Finalize
    \/ FinalizeTimer

Spec == Init /\ [][Next]_vars

----------------------------------------------------------------------------
(* Properties *)

OwnTimers == {t \in timers : t.data = obj}

\* the one timeout source the latest update armed, counted down by age seconds
FreshTimer ==
    [id |-> priv.poll_timer_id, data |-> obj, remaining |-> POLL_INTERVAL - age]

InUpdateBody == pc \in {"update_initial", "update_type", "update_poll"}

HandlerDone(h) == handler = h /\ pc = "idle"

\* C1: a source never has two poll timers armed at once; inside update() the
\* pending timer is already gone when anything else is done, and a new one
\* is added only by the last step of update().
C1_AtMostOneTimer ==
    /\ Cardinality(OwnTimers) <= 1
    /\ Cardinality(timers) <= 1
    /\ InUpdateBody => timers = {}

\* a Refresh on a battery detached the pending timer and left one armed
C1_Witness ==
    /\ HandlerDone("refresh")
    /\ n_cancelled = 1
    /\ Cardinality(OwnTimers) = 1

\* C2: no timeout callback runs on a finalized source: once a source is
\* finalized no timer is attached for it, whichever path finalized it, and
\* every attached timer belongs to the current, not yet finalized object.
C2_NoTimerAfterDestroy ==
    /\ ~uaf
    /\ life \in {"none", "dead"} => timers = {}
    /\ \A t \in timers : t.data = obj

\* construction failed at bus registration after update had armed the timer
C2_Witness ==
    /\ life = "dead"
    /\ handler = "new"
    /\ result = "NULL"
    /\ priv.type = "BATTERY"
    /\ n_cancelled = 1
    /\ timers = {}

\* C3: a poll-timer firing makes exactly one update() and one notification
\* (one "device-changed" to the daemon, one local "changed"); the fired
\* source is not kept by the main loop, and the only timer armed afterwards
\* is the one that update armed.
C3_PollFiresOnce ==
    HandlerDone("poll") =>
        /\ n_updates = 1
        /\ Len(daemon_sig) = 1
        /\ changed_sig = 1
        /\ result = "FALSE"
        /\ dispatching = 0
        /\ timers = {FreshTimer}

\* the poll handler has just returned
C3_Witness ==
    /\ HandlerDone("poll")
    /\ age = 0
    /\ n_updates = 1
    /\ Cardinality(timers) = 1

\* C4: a change event handled while the poll timer is pending detaches that
\* timer, so it never fires: the event makes one update and one
\* notification, the only timer left is armed for a full interval from that
\* update, and a poll handler starts only a full interval after the last
\* update.
C4_ChangeCancelsPoll ==
    /\ (HandlerDone("changed") /\ priv.type = "BATTERY") =>
          /\ n_cancelled = 1
          /\ n_updates = 1
          /\ Len(daemon_sig) = 1
          /\ changed_sig = 1
          /\ timers = {FreshTimer}
    /\ (handler = "poll" /\ pc = "update") => age = POLL_INTERVAL
    /\ (handler = "changed" /\ pc # "update" /\ life = "live") => dispatching = 0

\* a change event has interrupted the window of a battery's pending timer
C4_Witness ==
    /\ HandlerDone("changed")
    /\ priv.type = "BATTERY"
    /\ n_cancelled = 1
    /\ age = 0
    /\ \E t \in timers : t.remaining = POLL_INTERVAL

\* C5: devkit_power_source_changed returns the result of update(): TRUE
\* after emitting the notification exactly once when update succeeded, FALSE
\* without any notification when it failed.
C5_ChangedReturnsUpdateResult ==
    (handler = "changed" /\ result # "none") =>
        /\ n_updates = 1
        /\ result = (IF ret THEN "TRUE" ELSE "FALSE")
        /\ ret => (Len(daemon_sig) = 1 /\ changed_sig = 1)
        /\ ~ret => (daemon_sig = <<>> /\ changed_sig = 0)

\* a change event that brought another descriptor was handled and kept
C5_Witness ==
    /\ HandlerDone("changed")
    /\ result = "TRUE"
    /\ priv.native_path # devkit_device_get_native_path(priv.d)
    /\ changed_sig = 1


\* C6: construction whose first update finds a mandatory attribute absent
\* yields no entity: devkit_power_source_new returns no object and nothing
\* is exported on the bus.
C6_MissingAttributeYieldsNoEntity ==
    (handler = "new" /\ missing) => (~registered /\ result # "source")

\* C7: every successful update after construction, triggered by a change
\* event, a poll firing or Refresh, notifies the daemon with the object
\* path and emits the local "changed".
C7_EveryUpdateNotifies ==
    (pc = "idle" /\ handler \in {"changed", "poll", "refresh"} /\ ret) =>
        /\ daemon_sig = <<priv.object_path>>
        /\ changed_sig = 1

\* C7 as the code has it: every successful update triggered by a change
\* event or a poll firing notifies the daemon with the source's object path
\* and emits the local "changed" once; an update triggered by Refresh emits
\* neither.
C7_ChangeAndPollNotify ==
    /\ (pc = "idle" /\ handler \in {"changed", "poll"} /\ ret) =>
          /\ daemon_sig = <<compute_object_path(priv.native_path)>>
          /\ daemon_sig = <<priv.object_path>>
          /\ changed_sig = 1
    /\ (pc = "idle" /\ handler = "refresh" /\ ret) =>
          /\ daemon_sig = <<>>
          /\ changed_sig = 0

\* a poll-driven update told the daemon the path of the battery B-0
C7_Witness ==
    /\ HandlerDone("poll")
    /\ ret
    /\ daemon_sig = <<Str_sources \o <<"B", "_", "0">> >>
    /\ changed_sig = 1

\* C8: Refresh runs update() exactly once, replies only after it, and emits
\* neither "device-changed" nor "changed", whatever the device reports.
C8_RefreshIsSilent ==
    handler = "refresh" =>
        /\ daemon_sig = <<>>
        /\ changed_sig = 0
        /\ n_updates <= 1
        /\ replied => (pc = "idle" /\ n_updates = 1)
        /\ pc = "idle" => (replied /\ n_updates = 1 /\ result = "TRUE")

\* a Refresh that found the battery state changed has replied
C8_Witness ==
    /\ HandlerDone("refresh")
    /\ replied
    /\ sysfs = R_discharging95
    /\ priv.battery_state = "DISCHARGING"
    /\ n_updates = 1

\* the attributes in sysfs are the ones the source's last update read
BatteryUpdated ==
    /\ priv.type = "BATTERY"
    /\ life \in {"new", "live"}
    /\ pc \notin {"update", "update_initial", "update_type"}

StatusIs(text) == strcasecmp_eq(g_strstrip(sysfs_get_string(sysfs, "status")), text)

\* C9: after every battery update the state is Charging when the trimmed
\* status is "charging" in any case, else Discharging when it is
\* "discharging", else FullyCharged when percentage > 60 strictly, else
\* Empty: the status text wins over the percentage.
C9_StateClassification ==
    BatteryUpdated =>
        /\ priv.battery_state =
              (IF StatusIs(Str_charging) THEN "CHARGING"
               ELSE IF StatusIs(Str_discharging) THEN "DISCHARGING"
               ELSE IF priv.battery_percentage.n > 60 * priv.battery_percentage.d
                    THEN "FULLY_CHARGED"
               ELSE "EMPTY")
        /\ sysfs = R_charging10 =>
              (priv.battery_percentage = DblInt(10) /\ priv.battery_state = "CHARGING")
        /\ sysfs = R_discharging95 =>
              (priv.battery_percentage = DblInt(95) /\ priv.battery_state = "DISCHARGING")
        /\ sysfs = R_idle60 =>
              (priv.battery_percentage = DblInt(60) /\ priv.battery_state = "EMPTY")
        /\ sysfs = R_full75 =>
              (priv.battery_percentage = DblInt(75) /\ priv.battery_state = "FULLY_CHARGED")

\* a battery without status text resting at exactly 60 percent
C9_Witness ==
    /\ BatteryUpdated
    /\ pc = "update_poll"
    /\ sysfs = R_idle60
    /\ priv.battery_percentage = DblInt(60)
    /\ priv.battery_state = "EMPTY"

\* C10: for a reading with energy_full > 0 the stored percentage is
\* 100 * energy / energy_full clamped to [0, 100], hence within [0, 100] even
\* when the raw ratio is negative or above 100.
C10_PercentageClamped ==
    (BatteryUpdated /\ "energy_full" \in sysfs.present /\ sysfs.energy_full > 0) =>
        LET e == sysfs_get_int(sysfs, "energy_now")
            f == sysfs.energy_full
            pct == priv.battery_percentage
        IN  /\ pct.d > 0
            /\ 0 <= pct.n
            /\ pct.n <= 100 * pct.d
            /\ e < 0 => pct = DblInt(0)
            /\ e > f => pct = DblInt(100)
            /\ (0 <= e /\ e <= f) => pct.n * f = 100 * e * pct.d

\* a reading of 120 percent was stored as 100
C10_Witness ==
    /\ BatteryUpdated
    /\ pc = "update_poll"
    /\ sysfs = R_over
    /\ priv.battery_percentage = DblInt(100)

\* C11: after every battery update energy_rate has the magnitude
\* |current_now / 1,000,000|; it is <= 0 when the status is "charging" and
\* >= 0 otherwise, whatever the sign of the raw current_now.
C11_EnergyRateSign ==
    BatteryUpdated =>
        LET c == sysfs_get_int(sysfs, "current_now")
            rate == priv.battery_energy_rate
        IN  /\ rate.d > 0
            /\ Abs(rate.n) * 1000000 = Abs(c) * rate.d
            /\ StatusIs(Str_charging) => rate.n <= 0
            /\ ~StatusIs(Str_charging) => rate.n >= 0
            /\ sysfs = R_charging10 => rate = DblInt(-2)
            /\ sysfs = R_discharging95 => rate = DblInt(2)
            /\ sysfs = R_negative => rate = DblInt(3)

\* a discharging battery reporting current_now = -2000000 got the rate 2.0
C11_Witness ==
    /\ BatteryUpdated
    /\ pc = "update_poll"
    /\ sysfs = R_discharging95
    /\ sysfs.current_now < 0
    /\ priv.battery_energy_rate = DblInt(2)

----------------------------------------------------------------------------
(* compute_object_path on its own: every native path up to MaxPathLen *)

MaxPathLen == 5

PathChars == {"/", "-", "a"}

\* absolute paths that name something
NativePaths ==
    {p \in UNION {[1..n -> PathChars] : n \in 1..MaxPathLen} :
        p[1] = "/" /\ \E i \in 1..Len(p) : p[i] # "/"}

PathInit ==
    /\ \E p \in NativePaths :
          priv = [devkit_power_source_init EXCEPT !.native_path = p]
    /\ pc = "path"
    /\ sysfs = R_absent
    /\ obj = 0
    /\ life = "none"
    /\ registered = FALSE
    /\ freed = {}
    /\ timers = {}
    /\ dispatching = 0
    /\ age = 0
    /\ handler = "none"
    /\ ret = FALSE
    /\ result = "none"
    /\ n_updates = 0
    /\ n_cancelled = 0
    /\ daemon_sig = <<>>
    /\ changed_sig = 0
    /\ replied = FALSE
    /\ missing = FALSE
    /\ uaf = FALSE

\* register_power_source: line 374
PathCompute ==
    /\ pc = "path"
    /\ priv' = [priv EXCEPT !.object_path = compute_object_path(priv.native_path)]
    /\ pc' = "path_done"
    /\ UNCHANGED <<sysfs, obj, life, registered, freed, timers, dispatching,
                   age, handler, ret, result, observed, uaf>>

PathNext == PathCompute

PathSpec == PathInit /\ [][PathNext]_vars

\* the last segment of p, trailing separators set aside, dashes replaced
ExpectedSegment(p) ==
    LET e == CHOOSE i \in 1..Len(p) :
                 p[i] # "/" /\ \A j \in (i + 1)..Len(p) : p[j] = "/"
        b == CHOOSE i \in 1..e :
                 p[i] = "/" /\ \A j \in (i + 1)..e : p[j] # "/"
    IN  [k \in 1..(e - b) |-> IF p[b + k] = "-" THEN "_" ELSE p[b + k]]

\* C12: object_path is "/sources/" followed by the final segment of
\* native_path with every '-' replaced by '_'; the part after the prefix
\* holds no '-', and dashes of parent directories do not show up in it.
C12_ObjectPath ==
    pc = "path_done" =>
        /\ priv.object_path = Str_sources \o ExpectedSegment(priv.native_path)
        /\ Len(priv.object_path) > Len(Str_sources)
        /\ \A i \in (Len(Str_sources) + 1)..Len(priv.object_path) :
              priv.object_path[i] \notin {"-", "/"}

\* a dash in the parent directory and one in the last segment
C12_Witness ==
    /\ pc = "path_done"
    /\ priv.native_path = <<"/", "-", "/", "a", "-">>
    /\ priv.object_path = Str_sources \o <<"a", "_">>

----------------------------------------------------------------------------

SourceExists == life \in {"new", "live", "finalizing"}

\* C13: one group of dynamic fields is active, chosen by type: a LinePower
\* source keeps every battery field at its initial value, a Battery source
\* keeps line_power_online at its initial value (false).
C13_OneDynamicGroup ==
    /\ (SourceExists /\ priv.type = "LINE_POWER") =>
          /\ priv.battery_energy = DblInt(0)
          /\ priv.battery_energy_full = DblInt(0)
          /\ priv.battery_energy_full_design = DblInt(0)
          /\ priv.battery_energy_rate = DblInt(0)
          /\ priv.battery_percentage = DblInt(0)
          /\ priv.battery_state = "ZERO"
          /\ priv.battery_time_to_empty = -1
          /\ priv.battery_time_to_full = -1
    /\ (SourceExists /\ priv.type = "BATTERY") => priv.line_power_online = 0
    /\ SourceExists => priv.type \in {"LINE_POWER", "BATTERY"}

\* a battery was updated while the device showed online = 1
C13_Witness ==
    /\ HandlerDone("changed")
    /\ priv.type = "BATTERY"
    /\ sysfs = R_ac_on
    /\ priv.line_power_online = 0

\* C15: time_to_empty and time_to_full start at -1 and no update writes
\* them, for either type of source.
C15_TimesStayUnknown ==
    /\ priv.battery_time_to_empty = -1
    /\ priv.battery_time_to_full = -1

\* a discharging battery after a poll-driven update
C15_Witness ==
    /\ HandlerDone("poll")
    /\ priv.battery_state = "DISCHARGING"
    /\ priv.battery_time_to_empty = -1
    /\ priv.battery_time_to_full = -1

\* C14: finalize cancels the armed poll timer before it releases any other
\* resource of the source: while a timer of the source is still attached,
\* nothing has been released yet.
C14_TimerCancelledFirst == freed # {} => OwnTimers = {}

\* C16: the identity of a source is fixed at construction: its type is
\* LinePower iff "online" existed then, and type, native_path and
\* object_path are left alone by every later change event, poll firing and
\* Refresh, whatever descriptor or attributes they bring.
C16_IdentityFixed ==
    [][/\ (pc = "idle" /\ handler' = "new" /\ pc' = "update") =>
             /\ priv'.type = (IF "online" \in sysfs'.present
                              THEN "LINE_POWER" ELSE "BATTERY")
             /\ priv'.native_path = devkit_device_get_native_path(priv'.d)
       /\ (obj' = obj /\ SourceExists) =>
             /\ priv'.type = priv.type
             /\ priv'.native_path = priv.native_path
       /\ (obj' = obj /\ life = "live") => priv'.object_path = priv.object_path
      ]_vars

\* a line power source after a change event that brought another descriptor
\* and attributes without "online"
C16_Witness ==
    /\ HandlerDone("changed")
    /\ priv.type = "LINE_POWER"
    /\ "online" \notin sysfs.present
    /\ priv.native_path # devkit_device_get_native_path(priv.d)
    /\ priv.object_path = compute_object_path(priv.native_path)

\* update() is not running and has run at least once for this object
UpdateAtRest ==
    /\ life \in {"new", "live"}
    /\ pc \in {"idle", "new_check", "new_register", "changed_check",
               "poll_emit", "refresh_return"}

\* C17: the poll timer is armed exactly for batteries: while no update is
\* running, a Battery source that has been updated has exactly one armed
\* timer, the one poll_timer_id names, and a LinePower source has none and
\* poll_timer_id 0, at any time.
C17_TimerIffBattery ==
    /\ (UpdateAtRest /\ priv.type = "BATTERY") =>
          /\ Cardinality(OwnTimers) = 1
          /\ priv.poll_timer_id > 0
          /\ \A t \in OwnTimers : t.id = priv.poll_timer_id
    /\ (SourceExists /\ priv.type = "LINE_POWER") =>
          /\ OwnTimers = {}
          /\ priv.poll_timer_id = 0

\* a line power source has been refreshed and has no timer
C17_Witness ==
    /\ HandlerDone("refresh")
    /\ priv.type = "LINE_POWER"
    /\ n_updates = 1
    /\ timers = {}

StaticFields(p) == <<p.vendor, p.model, p.serial, p.battery_technology>>

\* C18: vendor, model, serial and technology are read, trimmed, by the
\* update that finds vendor unset, and every later step of the same source
\* leaves them as they are, whatever the attributes or the descriptor have
\* become.
C18_StaticFieldsReadOnce ==
    [][/\ (pc = "update_initial" /\ priv.vendor = NULL) =>
             /\ priv'.vendor = g_strstrip(sysfs_get_string(sysfs, "manufacturer"))
             /\ priv'.model = g_strstrip(sysfs_get_string(sysfs, "model_name"))
             /\ priv'.serial = g_strstrip(sysfs_get_string(sysfs, "serial_number"))
             /\ priv'.vendor # NULL
             /\ handler = "new"
       /\ (obj' = obj /\ priv.vendor # NULL) =>
             StaticFields(priv') = StaticFields(priv)
      ]_vars

\* a source built while the maker read " SMP\n" keeps "SMP" and its
\* technology after a change event that shows another maker and technology
C18_Witness ==
    /\ HandlerDone("changed")
    /\ sysfs = R_full75
    /\ priv.vendor = <<"S", "M", "P">>
    /\ priv.battery_technology = "LITHIUM_ION"

\* C19: the staleness window of a battery runs from its latest update of
\* any kind: each update (initial, change, poll, Refresh) drops the earlier
\* deadline and arms the timer for POLL_INTERVAL seconds from that update,
\* so the deadline is always POLL_INTERVAL after update_time and the poll
\* handler starts only when POLL_INTERVAL seconds went by without an update.
C19_WindowFromLastUpdate ==
    /\ (UpdateAtRest /\ priv.type = "BATTERY") =>
          /\ age <= POLL_INTERVAL
          /\ {t.remaining : t \in timers} = {POLL_INTERVAL - age}
    /\ (UpdateAtRest /\ priv.type = "BATTERY" /\ pc # "idle") =>
          /\ age = 0
          /\ {t.remaining : t \in timers} = {POLL_INTERVAL}
    /\ (handler = "poll" /\ pc \in {"update", "update_initial"}) =>
          age = POLL_INTERVAL

\* twenty seconds after a Refresh dropped the pending deadline the timer has
\* ten seconds left
C19_Witness ==
    /\ HandlerDone("refresh")
    /\ priv.type = "BATTERY"
    /\ n_cancelled = 1
    /\ age = 20
    /\ \E t \in timers : t.remaining = 10

----------------------------------------------------------------------------
(* A source that gets neither change events nor Refresh calls.  The main
   loop is fair: the clock advances, a due timeout source is dispatched, and
   a handler that has started runs to its end. *)

HandlerStep ==
    \/ NewCheck
    \/ NewRegister
    \/ UpdateRemoveTimer
    \/ UpdateInitialValues
    \/ UpdateType
    \/ UpdateAddTimer
    \/ PollEmit
    \/ Finalize
    \/ FinalizeTimer

PollNext ==
    \/ Tick
    \/ New
    \/ Removed
    \/ PollBattery
    \/ HandlerStep

\* a handler is between its entry and its return, where exactly one of the
\* steps of HandlerStep is enabled
HandlerRunning == pc # "idle"

\* The last conjunct is weak fairness of HandlerStep, written out with
\* HandlerRunning for ENABLED <<HandlerStep>>_vars.
PollSpec ==
    /\ Init
    /\ [][PollNext]_vars
    /\ WF_vars(Tick)
    /\ WF_vars(PollBattery)
    /\ ([]<>(~HandlerRunning) \/ []<><<HandlerStep>>_vars)

\* C20: polling sustains itself: a live Battery source that is not
\* destroyed and gets no change event and no Refresh is polled again and
\* again; every poll firing runs one update, emits the notification and
\* leaves the timer armed for the next one.
C20_PollingSustainsItself ==
    /\ (life = "live" /\ priv.type = "BATTERY" /\ pc = "idle")
          ~> (life # "live" \/ pc = "poll_emit")
    /\ (pc = "poll_emit")
          ~> (/\ HandlerDone("poll")
              /\ n_updates = 1
              /\ changed_sig = 1
              /\ Len(daemon_sig) = 1
              /\ Cardinality(OwnTimers) = 1)

\* a poll firing found the battery charging and left the timer armed anew
C20_Witness ==
    /\ HandlerDone("poll")
    /\ priv.battery_state = "CHARGING"
    /\ changed_sig = 1
    /\ age = 0
    /\ \E t \in OwnTimers : t.remaining = POLL_INTERVAL
----------------------------------------------------------------------------
\* C21: a changed notification is emitted only for a published source: the
\* constructor emits none, every notification is emitted while the object
\* is registered on the bus and carries the object_path computed from the
\* native path, never an unset one, and no poll timer fires for a source
\* that was not published or is gone (a failed registration finalizes the
\* source, which removes the timer its first update armed).
C21_NotifyOnlyWhenPublished ==
    /\ handler = "new" => (daemon_sig = <<>> /\ changed_sig = 0)
    /\ (daemon_sig # <<>> \/ changed_sig > 0) => registered
    /\ \A i \in 1..Len(daemon_sig) :
          /\ daemon_sig[i] # NULL
          /\ daemon_sig[i] = compute_object_path(priv.native_path)
    /\ ~uaf

\* a second battery source, built after the first one was given up, was
\* polled and announced under its object path
C21_Witness ==
    /\ HandlerDone("poll")
    /\ obj = 2
    /\ registered
    /\ priv.type = "BATTERY"
    /\ daemon_sig = <<priv.object_path>>
    /\ priv.object_path # NULL
    /\ changed_sig = 1

====
